---- MODULE Spec2Model ----
(***************************************************************************)
(* Model of the OpenAI API key tester (src/openai_key_tester.py): the     *)
(* four-stage validation pipeline of OpenAIKeyTester, its summary and the *)
(* exception handling of main().                                          *)
(***************************************************************************)
EXTENDS Integers, Sequences, FiniteSets, TLC

VARIABLES
    api_key,      \* self.api_key: [present, chars]; absent = os.getenv gave None
    api_base,     \* self.api_base: "None", "" or a base URL
    model,        \* self.model
    pc,           \* position of main() / run_comprehensive_test()
    results,      \* the dict `results`: sequence of [name, ok] in insertion order
    output,       \* diagnostics printed by print_success/print_warning/print_error
    calls,        \* SDK loads and network calls issued so far, with their outcome
    started,      \* stages whose function has been entered, in order
    exc,          \* exception propagating out of a stage function ("none" if none)
    sdk_installed, \* whether `import openai` can succeed in this environment
    interrupted,  \* stage in which a KeyboardInterrupt was delivered ("none" if none)
    summary,      \* branch taken by print_summary ("none" before it ran)
    exit_code     \* status passed to sys.exit by main() (-1: sys.exit not called)

vars == <<api_key, api_base, model, sdk_installed, pc, results, output, calls, started, exc,
          interrupted, summary, exit_code>>

(***************************************************************************)
(* Bounds of the model.                                                    *)
(***************************************************************************)
MaxHead == 3    \* longest freely chosen leading part of a credential
MaxPad == 18    \* longest filler appended to the leading part

(***************************************************************************)
(* Program constants.                                                      *)
(***************************************************************************)
MinKeyLen == 20

Prefix == <<"s", "k", "-">>

DefaultBase == "https://api.openai.com"

FallbackModel == "gpt-3.5-turbo"

DefaultModel == "gpt-3.5-turbo"

StageOrder == <<"format", "connectivity", "model_available", "completion">>

(***************************************************************************)
(* Input domains.                                                          *)
(***************************************************************************)
Chars == {"s", "k", "-", "x"}

RECURSIVE Pad(_)
Pad(n) == IF n = 0 THEN <<>> ELSE <<"a">> \o Pad(n - 1)

Heads == UNION {[1..n -> Chars] : n \in 0..MaxHead}

Credentials ==
    {[present |-> FALSE, chars |-> <<>>]}
        \cup {[present |-> TRUE, chars |-> h \o Pad(n)] : h \in Heads, n \in 0..MaxPad}

Bases == {"None", "", "https://proxy.example"}

Models == {DefaultModel, "gpt-4o"}

(***************************************************************************)
(* Outcomes the environment can deliver to a blocking step.  exc is the   *)
(* class of the exception raised ("none": the call returned), status the  *)
(* HTTP status of a response, body the shape of a chat completion.        *)
(***************************************************************************)
Ok == [exc |-> "none", status |-> 200, body |-> "text"]

Raise(e) == [exc |-> e, status |-> 0, body |-> "none"]

StatusCodes == {200, 401, 403, 404, 429, 500}

RequestsExceptions ==
    {"ReadTimeout", "ConnectTimeout", "ConnectionError", "SSLError",
     "RequestException", "ValueError", "KeyboardInterrupt"}

OpenAIExceptions ==
    {"AuthenticationError", "RateLimitError", "NotFoundError", "APIStatusError",
     "APITimeoutError", "APIConnectionError", "APIError", "OpenAIError",
     "ValueError", "KeyboardInterrupt"}

Bodies == {"no_choices", "content_none", "content_empty", "text"}

GetOutcomes ==
    {[exc |-> "none", status |-> c, body |-> "none"] : c \in StatusCodes}
        \cup {Raise(e) : e \in RequestsExceptions}

\* `import openai`: it succeeds exactly when the package is installed, unless
\* the user interrupts it
ImportOutcomes(installed) ==
    {IF installed THEN Ok ELSE Raise("ModuleNotFoundError"), Raise("KeyboardInterrupt")}

RetrieveOutcomes == {Ok} \cup {Raise(e) : e \in OpenAIExceptions}

ChatOutcomes ==
    {[exc |-> "none", status |-> 200, body |-> b] : b \in Bodies}
        \cup {Raise(e) : e \in OpenAIExceptions}

(***************************************************************************)
(* Class hierarchy of the exceptions (requests.exceptions, openai, and    *)
(* the builtins): Parents(c) are the direct base classes of c.            *)
(***************************************************************************)
Parents(c) ==
    CASE c = "ReadTimeout" -> {"Timeout"}
      [] c = "ConnectTimeout" -> {"ConnectionError", "Timeout"}
      [] c = "SSLError" -> {"ConnectionError"}
      [] c = "Timeout" -> {"RequestException"}
      [] c = "ConnectionError" -> {"RequestException"}
      [] c = "RequestException" -> {"Exception"}
      [] c = "AuthenticationError" -> {"APIStatusError"}
      [] c = "RateLimitError" -> {"APIStatusError"}
      [] c = "NotFoundError" -> {"APIStatusError"}
      [] c = "APIStatusError" -> {"APIError"}
      [] c = "APITimeoutError" -> {"APIConnectionError"}
      [] c = "APIConnectionError" -> {"APIError"}
      [] c = "APIError" -> {"OpenAIError"}
      [] c = "OpenAIError" -> {"Exception"}
      [] c = "ModuleNotFoundError" -> {"ImportError"}
      [] c = "ImportError" -> {"Exception"}
      [] c = "UnboundLocalError" -> {"NameError"}
      [] c = "NameError" -> {"Exception"}
      [] c = "ValueError" -> {"Exception"}
      [] c = "Exception" -> {"BaseException"}
      [] c = "KeyboardInterrupt" -> {"BaseException"}
      [] OTHER -> {}

RECURSIVE Ancestors(_)
Ancestors(c) == {c} \cup UNION {Ancestors(p) : p \in Parents(c)}

\* isinstance(e, cls): what an `except cls:` clause tests.
IsInstance(e, cls) == cls \in Ancestors(e)

(***************************************************************************)
(* Python helpers.                                                         *)
(***************************************************************************)
\* str.startswith
StartsWith(s, p) == Len(s) >= Len(p) /\ SubSeq(s, 1, Len(p)) = p

\* truth value of an optional string held in a configuration field
Truthy(s) == s \notin {"None", ""}

\* d[k] = v on an insertion-ordered dict
RECURSIVE DictSet(_, _, _)
DictSet(d, k, v) ==
    IF d = <<>> THEN <<[name |-> k, ok |-> v]>>
    ELSE IF Head(d).name = k THEN <<[name |-> k, ok |-> v]>> \o Tail(d)
    ELSE <<Head(d)>> \o DictSet(Tail(d), k, v)

Keys(d) == [i \in 1..Len(d) |-> d[i].name]

HasKey(d, k) == \E i \in 1..Len(d) : d[i].name = k

Get(d, k) == d[CHOOSE i \in 1..Len(d) : d[i].name = k].ok

\* what a stage function hands back: a bool, the message it printed, or an
\* exception leaving the function
Return(ok, msgs) == [ok |-> ok, msgs |-> msgs, exc |-> "none"]

Propagate(e, msgs) == [ok |-> FALSE, msgs |-> msgs, exc |-> e]

(***************************************************************************)
(* Stage 1: check_api_key_format.                                          *)
(***************************************************************************)
\* variant: the length test accepts one character less
check_api_key_format_short(key) ==
    IF ~key.present \/ key.chars = <<>> THEN Return(FALSE, <<"MissingCredential">>)
    ELSE IF ~StartsWith(key.chars, Prefix) THEN Return(FALSE, <<"InvalidPrefix">>)
    ELSE IF Len(key.chars) < MinKeyLen - 1 THEN Return(FALSE, <<"TooShort">>)
    ELSE Return(TRUE, <<"FormatValid">>)

check_api_key_format(key) ==
    IF ~key.present \/ key.chars = <<>> THEN Return(FALSE, <<"MissingCredential">>)
    ELSE IF ~StartsWith(key.chars, Prefix) THEN Return(FALSE, <<"InvalidPrefix">>)
    ELSE IF Len(key.chars) < MinKeyLen THEN Return(FALSE, <<"TooShort">>)
    ELSE Return(TRUE, <<"FormatValid">>)

(***************************************************************************)
(* Stage 2: test_connectivity, given the outcome of requests.get.          *)
(***************************************************************************)
ConnectivityUrl(base) ==
    [base |-> IF Truthy(base) THEN base ELSE DefaultBase, path |-> "/v1/models"]

\* variant: the ConnectionError clause placed before the Timeout clause
test_connectivity_swapped(out) ==
    IF out.exc = "none" THEN
        IF out.status = 200 THEN Return(TRUE, <<"Connected">>)
        ELSE IF out.status = 401 THEN Return(FALSE, <<"AuthenticationFailed">>)
        ELSE IF out.status = 403 THEN Return(FALSE, <<"Forbidden">>)
        ELSE Return(FALSE, <<"UnexpectedStatus">>)
    ELSE IF IsInstance(out.exc, "ConnectionError") THEN Return(FALSE, <<"ConnectionError">>)
    ELSE IF IsInstance(out.exc, "Timeout") THEN Return(FALSE, <<"Timeout">>)
    ELSE IF IsInstance(out.exc, "Exception") THEN Return(FALSE, <<"UnknownTransportError">>)
    ELSE Propagate(out.exc, <<>>)

test_connectivity(out) ==
    IF out.exc = "none" THEN
        IF out.status = 200 THEN Return(TRUE, <<"Connected">>)
        ELSE IF out.status = 401 THEN Return(FALSE, <<"AuthenticationFailed">>)
        ELSE IF out.status = 403 THEN Return(FALSE, <<"Forbidden">>)
        ELSE Return(FALSE, <<"UnexpectedStatus">>)
    ELSE IF IsInstance(out.exc, "Timeout") THEN Return(FALSE, <<"Timeout">>)
    ELSE IF IsInstance(out.exc, "ConnectionError") THEN Return(FALSE, <<"ConnectionError">>)
    ELSE IF IsInstance(out.exc, "Exception") THEN Return(FALSE, <<"UnknownTransportError">>)
    ELSE Propagate(out.exc, <<>>)

(***************************************************************************)
(* Stage 3: test_model_availability.  imp is the outcome of `import       *)
(* openai`, first of client.models.retrieve(self.model).  After a         *)
(* NotFoundError the function goes on to the fallback lookup, whose       *)
(* outcome is second.                                                      *)
(***************************************************************************)
\* the outer `except Exception as e`
lookup_error(e) ==
    IF IsInstance(e, "Exception") THEN Return(FALSE, <<"LookupError">>)
    ELSE Propagate(e, <<>>)

\* whether the first lookup ends in the handler `except openai.NotFoundError`
NeedsFallback(imp, first) ==
    imp.exc = "none" /\ first.exc # "none" /\ IsInstance(first.exc, "NotFoundError")

\* the function up to the fallback lookup; under NeedsFallback the result is
\* the warning printed on entry to the handler, and the function goes on
test_model_availability(imp, first) ==
    IF imp.exc # "none" THEN lookup_error(imp.exc)
    ELSE IF first.exc = "none" THEN Return(TRUE, <<"ModelAvailable">>)
    ELSE IF NeedsFallback(imp, first) THEN Return(FALSE, <<"ModelNotFoundTryingFallback">>)
    ELSE lookup_error(first.exc)

\* the inner try of the NotFoundError handler, closed by a bare `except:`
fallback_lookup(second) ==
    IF second.exc = "none" THEN Return(TRUE, <<"FallbackAvailable">>)
    ELSE Return(FALSE, <<"ModelUnavailable">>)

(***************************************************************************)
(* Stage 4: test_simple_completion.  imp is the outcome of `import        *)
(* openai`, out of client.chat.completions.create.  The name openai is    *)
(* local to the function: when the import raises it stays unbound, and    *)
(* evaluating the first clause `except openai.AuthenticationError` raises *)
(* UnboundLocalError, which replaces the exception being handled.         *)
(***************************************************************************)
completion_handlers(e) ==
    IF IsInstance(e, "AuthenticationError") THEN Return(FALSE, <<"AuthenticationFailed">>)
    ELSE IF IsInstance(e, "RateLimitError") THEN Return(FALSE, <<"RateLimited">>)
    ELSE IF IsInstance(e, "APIError") THEN Return(FALSE, <<"ProviderError">>)
    ELSE IF IsInstance(e, "Exception") THEN Return(FALSE, <<"UnknownError">>)
    ELSE Propagate(e, <<>>)

test_simple_completion(imp, out) ==
    IF imp.exc # "none" THEN Propagate("UnboundLocalError", <<>>)
    ELSE IF out.exc = "none" THEN
        IF out.body = "text" THEN Return(TRUE, <<"CompletionOk">>)
        ELSE Return(FALSE, <<"EmptyResponse">>)
    ELSE completion_handlers(out.exc)

(***************************************************************************)
(* print_summary: the branch of lines 236-241.                             *)
(***************************************************************************)
RECURSIVE Sum(_)
Sum(d) == IF d = <<>> THEN 0 ELSE (IF Head(d).ok THEN 1 ELSE 0) + Sum(Tail(d))

\* variant: the partial branch asks for more than one passed test
print_summary_strict(d) ==
    LET total_tests == Len(d)
        passed_tests == Sum(d)
    IN  IF passed_tests = total_tests THEN "AllPassed"
        ELSE IF passed_tests > 1 THEN "PartialPass"
        ELSE "AllFailed"

print_summary(d) ==
    LET total_tests == Len(d)
        passed_tests == Sum(d)
    IN  IF passed_tests = total_tests THEN "AllPassed"
        ELSE IF passed_tests > 0 THEN "PartialPass"
        ELSE "AllFailed"

(***************************************************************************)
(* The pipeline: main() constructs the tester, runs run_comprehensive_test *)
(* and prints the summary.                                                  *)
(***************************************************************************)
\* OpenAIKeyTester.__init__: the configuration read from the environment
Init ==
    /\ api_key \in Credentials
    /\ api_base \in Bases
    /\ model \in Models
    /\ sdk_installed \in BOOLEAN
    /\ pc = "format"
    /\ results = <<>>
    /\ output = <<>>
    /\ calls = <<>>
    /\ started = <<>>
    /\ exc = "none"
    /\ interrupted = "none"
    /\ summary = "none"
    /\ exit_code = -1

\* base URL the SDK client is built with (client_kwargs)
ClientBase(base) == IF Truthy(base) THEN base ELSE "sdk-default"

Call(op, base, arg, out) == [op |-> op, base |-> base, arg |-> arg, out |-> out]

\* the calls of a stage that loads the SDK and then issues one request
SdkCalls(imp, op, arg, out) ==
    <<Call("import", "none", "openai", imp)>>
        \o (IF imp.exc = "none" THEN <<Call(op, ClientBase(api_base), arg, out)>> ELSE <<>>)

\* a KeyboardInterrupt delivered while stage is running; the first one is kept
NoteInterrupt(stage, hit) ==
    interrupted' = IF hit /\ interrupted = "none" THEN stage ELSE interrupted

\* results[stage] = <stage function>() followed by the test on it: when the
\* function raises, the assignment does not happen and the exception leaves
\* run_comprehensive_test
StageDone(stage, r, pcPass, pcFail) ==
    /\ output' = output \o r.msgs
    /\ IF r.exc # "none"
       THEN /\ exc' = r.exc
            /\ pc' = "raised"
            /\ results' = results
       ELSE /\ exc' = exc
            /\ pc' = IF r.ok THEN pcPass ELSE pcFail
            /\ results' = DictSet(results, stage, r.ok)

\* variant: Step 1 without `if not results['format']: return results`
Format_NoAbort ==
    /\ pc = "format"
    /\ started' = Append(started, "format")
    /\ StageDone("format", check_api_key_format(api_key), "connectivity", "connectivity")
    /\ UNCHANGED <<api_key, api_base, model, sdk_installed, calls, interrupted,
                   summary, exit_code>>

\* Step 1
Format ==
    /\ pc = "format"
    /\ started' = Append(started, "format")
    /\ StageDone("format", check_api_key_format(api_key), "connectivity", "returned")
    /\ UNCHANGED <<api_key, api_base, model, sdk_installed, calls, interrupted,
                   summary, exit_code>>

\* variant: Step 2 without `if not results['connectivity']: return results`
Connectivity_NoAbort ==
    /\ pc = "connectivity"
    /\ \E out \in GetOutcomes :
        LET url == ConnectivityUrl(api_base) IN
        /\ started' = Append(started, "connectivity")
        /\ calls' = Append(calls, Call("GET", url.base, url.path, out))
        /\ NoteInterrupt("connectivity", out.exc = "KeyboardInterrupt")
        /\ StageDone("connectivity", test_connectivity(out), "model", "model")
    /\ UNCHANGED <<api_key, api_base, model, sdk_installed, summary, exit_code>>

\* Step 2
Connectivity ==
    /\ pc = "connectivity"
    /\ \E out \in GetOutcomes :
        LET url == ConnectivityUrl(api_base) IN
        /\ started' = Append(started, "connectivity")
        /\ calls' = Append(calls, Call("GET", url.base, url.path, out))
        /\ NoteInterrupt("connectivity", out.exc = "KeyboardInterrupt")
        /\ StageDone("connectivity", test_connectivity(out), "model", "returned")
    /\ UNCHANGED <<api_key, api_base, model, sdk_installed, summary, exit_code>>

\* Step 3, up to the return or to the start of the fallback lookup
ModelLookup ==
    /\ pc = "model"
    /\ \E imp \in ImportOutcomes(sdk_installed), first \in RetrieveOutcomes :
        LET r == test_model_availability(imp, first) IN
        /\ started' = Append(started, "model_available")
        /\ calls' = calls \o SdkCalls(imp, "retrieve", model, first)
        /\ NoteInterrupt("model_available",
                         imp.exc = "KeyboardInterrupt"
                             \/ (imp.exc = "none" /\ first.exc = "KeyboardInterrupt"))
        /\ IF NeedsFallback(imp, first)
           THEN /\ pc' = "model_fallback"
                /\ output' = output \o r.msgs
                /\ UNCHANGED <<results, exc>>
           ELSE StageDone("model_available", r, "completion", "completion")
    /\ UNCHANGED <<api_key, api_base, model, sdk_installed, summary, exit_code>>

\* Step 3, the fallback lookup
ModelFallback ==
    /\ pc = "model_fallback"
    /\ \E second \in RetrieveOutcomes :
        /\ calls' = Append(calls, Call("retrieve", ClientBase(api_base), FallbackModel, second))
        /\ NoteInterrupt("model_available", second.exc = "KeyboardInterrupt")
        /\ StageDone("model_available", fallback_lookup(second), "completion", "completion")
    /\ UNCHANGED <<api_key, api_base, model, sdk_installed, started, summary, exit_code>>

\* Step 4
Completion ==
    /\ pc = "completion"
    /\ \E imp \in ImportOutcomes(sdk_installed), out \in ChatOutcomes :
        /\ started' = Append(started, "completion")
        /\ calls' = calls \o SdkCalls(imp, "chat", model, out)
        /\ NoteInterrupt("completion",
                         imp.exc = "KeyboardInterrupt"
                             \/ (imp.exc = "none" /\ out.exc = "KeyboardInterrupt"))
        /\ StageDone("completion", test_simple_completion(imp, out), "returned", "returned")
    /\ UNCHANGED <<api_key, api_base, model, sdk_installed, summary, exit_code>>

\* a KeyboardInterrupt delivered between two stages, or before the summary
InterruptBetween ==
    /\ pc \in {"format", "connectivity", "model", "completion", "returned"}
    /\ pc' = "raised"
    /\ exc' = "KeyboardInterrupt"
    /\ NoteInterrupt("between", TRUE)
    /\ UNCHANGED <<api_key, api_base, model, sdk_installed, results, output, calls,
                   started, summary, exit_code>>

\* tester.print_summary(results)
Summary ==
    /\ pc = "returned"
    /\ summary' = print_summary(results)
    /\ pc' = "done"
    /\ UNCHANGED <<api_key, api_base, model, sdk_installed, results, output, calls,
                   started, exc, interrupted, exit_code>>

\* the except clauses of main()
main_handlers(e) ==
    IF IsInstance(e, "KeyboardInterrupt") THEN "InterruptedByUser"
    ELSE IF IsInstance(e, "Exception") THEN "UnexpectedError"
    ELSE "Uncaught"

MainExcept ==
    /\ pc = "raised"
    /\ output' = Append(output, main_handlers(exc))
    /\ exit_code' = 1
    /\ pc' = "exited"
    /\ UNCHANGED <<api_key, api_base, model, sdk_installed, results, calls, started,
                   exc, interrupted, summary>>

Next ==
    \/ Format
    \/ Connectivity
    \/ ModelLookup
    \/ ModelFallback
    \/ Completion
    \/ InterruptBetween
    \/ Summary
    \/ MainExcept

Spec == Init /\ [][Next]_vars

(***************************************************************************)
(* print_summary as a function of its argument: any dict of at most       *)
(* MaxEntries entries may be handed to it.                                 *)
(***************************************************************************)
MaxEntries == 3

ReportNames == {"format", "connectivity", "model_available", "completion", "other"}

Entries == [name : ReportNames, ok : BOOLEAN]

Reports ==
    {d \in UNION {[1..n -> Entries] : n \in 0..MaxEntries} :
        \A i, j \in 1..Len(d) : i # j => d[i].name # d[j].name}

InitSummary ==
    /\ api_key = [present |-> FALSE, chars |-> <<>>]
    /\ api_base = "None"
    /\ model = DefaultModel
    /\ sdk_installed = TRUE
    /\ pc = "returned"
    /\ results \in Reports
    /\ output = <<>>
    /\ calls = <<>>
    /\ started = <<>>
    /\ exc = "none"
    /\ interrupted = "none"
    /\ summary = "none"
    /\ exit_code = -1

NextSummary == Summary

SpecSummary == InitSummary /\ [][NextSummary]_vars

(***************************************************************************)
(* Properties.                                                             *)
(***************************************************************************)
Finished == pc \in {"returned", "done", "raised", "exited"}

Returned == pc \in {"returned", "done"}

IsPrefix(a, b) == Len(a) <= Len(b) /\ a = SubSeq(b, 1, Len(a))

Failed(stage) == HasKey(results, stage) /\ ~Get(results, stage)

Passed(stage) == HasKey(results, stage) /\ Get(results, stage)

\* C1: in every state the keys of the report are a prefix of format,
\* connectivity, model_available, completion; an entry exists only for a
\* stage that has been entered; after a failed format the report holds only
\* format, after a failed connectivity no model_available or completion.
C1_ReportIsPrefix ==
    /\ IsPrefix(Keys(results), StageOrder)
    /\ IsPrefix(Keys(results), started)
    /\ Failed("format") => Keys(results) = <<"format">>
    /\ Failed("connectivity") =>
           ~HasKey(results, "model_available") /\ ~HasKey(results, "completion")

C1_Witness ==
    /\ pc = "done"
    /\ Failed("connectivity")
    /\ Keys(results) = <<"format", "connectivity">>

\* C2: when the format check rejects the credential, no SDK load and no
\* network call is ever issued, and the report is exactly format = Failed.
C2_FormatFailureAborts ==
    Failed("format") =>
        /\ calls = <<>>
        /\ started = <<"format">>
        /\ results = <<[name |-> "format", ok |-> FALSE]>>
        /\ Finished

C2_Witness ==
    /\ pc = "done"
    /\ api_key.present
    /\ Len(api_key.chars) >= 20
    /\ api_key.chars[1] = "x"
    /\ results = <<[name |-> "format", ok |-> FALSE]>>
    /\ calls = <<>>

\* C3: the format check reports MissingCredential for an absent or empty
\* credential, else InvalidPrefix unless the credential starts with sk-, else
\* TooShort when it is shorter than 20, else it passes.
HasSkPrefix(c) == Len(c) >= 3 /\ c[1] = "s" /\ c[2] = "k" /\ c[3] = "-"

C3_FormatClassification ==
    started # <<>> =>
        LET c == api_key.chars
            tag == output[1]
            missing == ~api_key.present \/ Len(c) = 0
        IN  /\ (tag = "MissingCredential") <=> missing
            /\ (tag = "InvalidPrefix") <=> (~missing /\ ~HasSkPrefix(c))
            /\ (tag = "TooShort") <=> (~missing /\ HasSkPrefix(c) /\ Len(c) < 20)
            /\ (tag = "FormatValid") <=> (~missing /\ HasSkPrefix(c) /\ Len(c) >= 20)
            /\ results[1] = [name |-> "format", ok |-> (tag = "FormatValid")]

C3_Witness ==
    /\ started # <<>>
    /\ HasSkPrefix(api_key.chars)
    /\ Len(api_key.chars) = 20
    /\ Passed("format")

\* C4: the connectivity stage issues a single GET to /v1/models and passes
\* exactly on status 200; 401, 403 and any other status, a timeout, a
\* connection failure and any other exception are each reported under their
\* own diagnostic; after any of these failures the report is format = Passed,
\* connectivity = Failed, and no SDK load, model lookup or completion request
\* is issued.
TimeoutClasses == {"ReadTimeout", "ConnectTimeout"}

ConnectionClasses == {"ConnectionError", "SSLError"}

OtherRequestFaults == {"RequestException", "ValueError"}

C4_ConnectivityClassification ==
    HasKey(results, "connectivity") =>
        LET get == calls[1]
            tag == output[2]
            ok == Get(results, "connectivity")
        IN  /\ get.op = "GET" /\ get.arg = "/v1/models"
            /\ \A i \in 2..Len(calls) : calls[i].op # "GET"
            /\ ok <=> (get.out.exc = "none" /\ get.out.status = 200)
            /\ (get.out.exc = "none" /\ get.out.status = 401) => tag = "AuthenticationFailed"
            /\ (get.out.exc = "none" /\ get.out.status = 403) => tag = "Forbidden"
            /\ (get.out.exc = "none" /\ get.out.status \notin {200, 401, 403})
                   => tag = "UnexpectedStatus"
            /\ get.out.exc \in TimeoutClasses => tag = "Timeout"
            /\ get.out.exc \in ConnectionClasses => tag = "ConnectionError"
            /\ get.out.exc \in OtherRequestFaults => tag = "UnknownTransportError"
            /\ ~ok => /\ results = <<[name |-> "format", ok |-> TRUE],
                                      [name |-> "connectivity", ok |-> FALSE]>>
                      /\ Len(calls) = 1
                      /\ started = <<"format", "connectivity">>

C4_Witness ==
    /\ pc = "done"
    /\ Failed("connectivity")
    /\ Len(results) = 2
    /\ calls[1].out.exc = "ConnectTimeout"
    /\ output[2] = "Timeout"

\* C10: a returned report has 1, 2 or 4 entries; format is Passed when it has
\* two or more, connectivity is Passed when it has four; the summary says
\* AllFailed exactly when format failed, PartialPass for a run aborted at
\* connectivity, and a run that reached the completion stage has at least two
\* Passed entries.
C10_ReturnedReportShape ==
    Returned =>
        /\ Len(results) \in {1, 2, 4}
        /\ Len(results) >= 2 => Passed("format")
        /\ Len(results) = 4 => Passed("connectivity") /\ Sum(results) >= 2
        /\ pc = "done" =>
               /\ (summary = "AllFailed") <=> Failed("format")
               /\ Failed("connectivity") => summary = "PartialPass"

C10_Witness ==
    /\ pc = "done"
    /\ Len(results) = 4
    /\ Sum(results) = 2
    /\ summary = "PartialPass"

(***************************************************************************)
(* Statements that the code does not satisfy.                              *)
(***************************************************************************)
\* the last call issued
LastCall == calls[Len(calls)]

\* C5: the model stage is not fatal: once format and connectivity have
\* passed and the user does not interrupt the run, the completion stage is
\* executed whatever the model stage returned and the report ends with all
\* four entries.
C5_ModelStageNotFatal ==
    (Finished /\ interrupted = "none" /\ Passed("connectivity")) =>
        /\ started = StageOrder
        /\ Keys(results) = StageOrder

\* C6: the completion stage passes exactly on a response whose first choice
\* has non-empty content; empty or absent choices give EmptyResponse, an
\* authentication error AuthenticationFailed, a rate-limit error RateLimited,
\* any other API error ProviderError and any other fault UnknownError; the
\* request names the configured model.
C6_CompletionClassification ==
    (Len(started) = 4 /\ LastCall.out.exc # "KeyboardInterrupt") =>
        LET e == LastCall.out.exc
            \* the diagnostic of the completion stage follows those of the
            \* model stage, which prints two when it tries the fallback
            tag == output[IF output[3] = "ModelNotFoundTryingFallback" THEN 5 ELSE 4]
        IN  /\ HasKey(results, "completion")
            /\ Get(results, "completion") <=> (LastCall.op = "chat" /\ e = "none"
                                                  /\ LastCall.out.body = "text")
            /\ LastCall.op = "chat" => LastCall.arg = model
            /\ (LastCall.op = "chat" /\ e = "none" /\ LastCall.out.body # "text")
                   => tag = "EmptyResponse"
            /\ e = "AuthenticationError" => tag = "AuthenticationFailed"
            /\ e = "RateLimitError" => tag = "RateLimited"
            /\ e \in {"NotFoundError", "APIStatusError", "APITimeoutError",
                      "APIConnectionError", "APIError"} => tag = "ProviderError"
            /\ e \in {"OpenAIError", "ValueError", "ModuleNotFoundError"}
                   => tag = "UnknownError"

\* C7: the summary is AllPassed when every entry passed, PartialPass when
\* some but not all passed, AllFailed when none passed, and an empty report
\* is not announced as all tests passed.
C7_SummaryClassification ==
    pc = "done" =>
        LET total == Len(results)
            passed == Cardinality({i \in 1..Len(results) : results[i].ok})
        IN  /\ (total > 0 /\ passed = total) => summary = "AllPassed"
            /\ (0 < passed /\ passed < total) => summary = "PartialPass"
            /\ (total > 0 /\ passed = 0) => summary = "AllFailed"
            /\ total = 0 => summary # "AllPassed"

\* C8: no exception other than a user interrupt leaves a stage function or
\* run_comprehensive_test.
C8_NoFaultPropagates ==
    exc # "none" => interrupted # "none"

\* C9: after a user interrupt no further stage is entered: the stage that was
\* running when it arrived is the last one entered, and an interrupt between
\* stages ends the run.
C9_InterruptStopsPipeline ==
    /\ interrupted \notin {"none", "between"} => started[Len(started)] = interrupted
    /\ interrupted = "between" => pc \in {"raised", "exited"}
    /\ IsPrefix(Keys(results), started)

====
